---- MODULE Spec2Model ----
(***************************************************************************)
(* klee::kdalloc::Mapping (include/klee/KDAlloc/mapping.h): a move-only    *)
(* handle on one anonymous OS mapping.  Addresses and sizes are counted in *)
(* pages: page p stands for the address p * pagesize, 0 is the null        *)
(* address ("no preference") and MAP_FAILED is the all-ones sentinel,       *)
(* which is not page aligned.  The build configuration (target backend,    *)
(* NDEBUG) is chosen in Init and never changes.                            *)
(* Spec runs the public operations one at a time, each as one step, and    *)
(* keeps the last operation in a history record.  SpecMT runs them on two  *)
(* threads, one object each, with every call into the OS as one step.      *)
(***************************************************************************)
EXTENDS Integers, Sequences, FiniteSets, TLC

\* ---- bounds of the model ------------------------------------------------
NumPages == 3       \* pages of address space the OS can hand out: 1..NumPages
MaxSize == 2        \* requested sizes range over 0..MaxSize pages
NumHandles == 2     \* Mapping objects that can exist at the same time, and
                    \* threads of the concurrent specification (one object each)

Pages == 1..NumPages
Handles == 1..NumHandles
Threads == Handles
Sizes == 0..MaxSize

\* ---- constants of the program and of the platform headers ---------------
MAP_FAILED == -1
PROT_READ == 1
PROT_WRITE == 2
PROT_EXEC == 4
PAGE_READONLY == 2
PAGE_READWRITE == 4
PAGE_EXECUTE_READ == 32
MADV_RANDOM == 1
MADV_DONTNEED == 4
MADV_DONTFORK == 10
MADV_NOHUGEPAGE == 15

\* build targets: Linux with kernel headers >= 4.17 (MAP_FIXED_NOREPLACE),
\* Linux with older headers (address is a hint), FreeBSD (MAP_FIXED |
\* MAP_EXCL), Apple (hint), Windows (the mmap/munmap shims).
Backends == {"LinuxNoReplace", "LinuxLegacy", "FreeBSD", "Apple", "Windows"}

VARIABLES
  backend,      \* build target, fixed
  ndebug,       \* TRUE when assert() is compiled out, fixed
  alive,        \* alive[h]: the object h is constructed and not yet destroyed
  baseAddress,  \* Mapping::baseAddress of each object
  size,         \* Mapping::size of each object
  maps,         \* OS mappings of the process: records [base, len, hints]
  mem,          \* content of each page: 0 fresh/zero, 1 written
  aborted,      \* the process died in a failed assert
  freed,        \* <<base, size>> of the last mapping a destructor released,
                \* <<>> once the program has asked the OS for a mapping again
  last,         \* the last operation: arguments, result, calls, state before
  thread        \* thread[t]: where thread t stands inside the operation it runs
                \* on object t, its locals, and a record of that operation

vars ==
  <<backend, ndebug, alive, baseAddress, size, maps, mem, aborted, freed, last, thread>>

\* ---- integer helpers ----------------------------------------------------
RECURSIVE BitOr(_, _)
BitOr(a, b) ==
  IF a = 0 THEN b
  ELSE IF b = 0 THEN a
  ELSE (IF a % 2 = 1 \/ b % 2 = 1 THEN 1 ELSE 0) + 2 * BitOr(a \div 2, b \div 2)

RECURSIVE BitAnd(_, _)
BitAnd(a, b) ==
  IF a = 0 \/ b = 0 THEN 0
  ELSE (IF a % 2 = 1 /\ b % 2 = 1 THEN 1 ELSE 0) + 2 * BitAnd(a \div 2, b \div 2)

MinOf(S) == CHOOSE x \in S : \A y \in S : x <= y

\* ---- the OS address space -----------------------------------------------
Range(b, n) == IF b \in Pages /\ n >= 1 THEN b .. (b + n - 1) ELSE {}

Occupied(ms) == UNION {Range(m.base, m.len) : m \in ms}

\* [b, b+n) lies in the address space and no page of it is mapped
RangeFree(ms, b, n) ==
  /\ b \in Pages
  /\ n >= 1
  /\ b + n - 1 <= NumPages
  /\ Range(b, n) \cap Occupied(ms) = {}

FreeBases(ms, n) == {b \in Pages : RangeFree(ms, b, n)}

\* the placements the kernel can choose for n pages; 0 stands for "none"
KernelChoices(ms, n) == IF FreeBases(ms, n) = {} THEN {0} ELSE FreeBases(ms, n)

\* where the kernel puts a mapping it is free to place: at its choice "place",
\* MAP_FAILED (ENOMEM) when there is no room
KernelPick(ms, n, place) ==
  IF RangeFree(ms, place, n) THEN place
  ELSE IF FreeBases(ms, n) = {} THEN MAP_FAILED
  ELSE MinOf(FreeBases(ms, n))

\* POSIX mmap of anonymous private memory: the address it returns.  With
\* MAP_FIXED_NOREPLACE or MAP_FIXED | MAP_EXCL the call fails unless the range
\* is free; with MAP_FIXED alone the range is taken whatever is mapped there.
PosixMmap(ms, addr, length, flags, place) ==
  IF length = 0 THEN MAP_FAILED
  ELSE IF "MAP_FIXED_NOREPLACE" \in flags \/ {"MAP_FIXED", "MAP_EXCL"} \subseteq flags
    THEN (IF RangeFree(ms, addr, length) THEN addr ELSE MAP_FAILED)
  ELSE IF "MAP_FIXED" \in flags
    THEN (IF addr \in Pages /\ addr + length - 1 <= NumPages THEN addr ELSE MAP_FAILED)
  ELSE IF addr # 0 /\ RangeFree(ms, addr, length) THEN addr
  ELSE KernelPick(ms, length, place)

\* VirtualAlloc(addr, length, MEM_COMMIT | MEM_RESERVE, flProtect): 0 is NULL
ValidProtect == {1, 2, 4, 8, 16, 32, 64, 128}
VirtualAlloc(ms, addr, length, flProtect, place) ==
  IF flProtect \notin ValidProtect \/ length = 0 THEN 0
  ELSE IF addr # 0 THEN (IF RangeFree(ms, addr, length) THEN addr ELSE 0)
  ELSE IF FreeBases(ms, length) = {} THEN 0
  ELSE KernelPick(ms, length, place)

\* the Windows shim's translation of the protection bits
WinProtect(prot) ==
  LET p1 == IF BitAnd(prot, PROT_READ) # 0 THEN BitOr(0, PAGE_READONLY) ELSE 0
      p2 == IF BitAnd(prot, PROT_WRITE) # 0 THEN BitOr(p1, PAGE_READWRITE) ELSE p1
      p3 == IF BitAnd(prot, PROT_EXEC) # 0 THEN BitOr(p2, PAGE_EXECUTE_READ) ELSE p2
  IN p3

\* ::mmap as the build sees it: the shim on Windows, the system call elsewhere
mmap(ms, addr, length, prot, flags, place) ==
  IF backend = "Windows"
    THEN LET ptr == VirtualAlloc(ms, addr, length, WinProtect(prot), place)
         IN IF ptr = 0 THEN MAP_FAILED ELSE ptr
    ELSE PosixMmap(ms, addr, length, flags, place)

\* what is left of mapping m when the pages [b, b+n) are unmapped
Pieces(m, b, n) ==
  LET lo == m.base
      hi == m.base + m.len - 1
      left == IF lo < b /\ b <= hi + 1
                THEN {[base |-> lo, len |-> b - lo, hints |-> m.hints]} ELSE {}
      right == IF b + n - 1 < hi /\ lo <= b + n
                 THEN {[base |-> b + n, len |-> hi - (b + n) + 1, hints |-> m.hints]}
                 ELSE {}
  IN IF Range(lo, m.len) \cap Range(b, n) = {} THEN {m} ELSE left \cup right

\* the mapping set after a successful mmap at b: the new mapping, and what it
\* left of the mappings it replaced (none unless MAP_FIXED was passed alone)
Mapped(ms, b, n) ==
  UNION {Pieces(m, b, n) : m \in ms} \cup {[base |-> b, len |-> n, hints |-> {}]}

\* POSIX munmap: EINVAL for an unaligned address or a zero length, else every
\* page of the range is unmapped (also when none was mapped) and 0 returned
PosixMunmap(ms, mm, b, n) ==
  IF b \notin Pages \/ n = 0
    THEN [maps |-> ms, mem |-> mm, rc |-> -1]
    ELSE [maps |-> UNION {Pieces(m, b, n) : m \in ms},
          mem |-> [p \in Pages |-> IF p \in Range(b, n) THEN 0 ELSE mm[p]],
          rc |-> 0]

\* VirtualFree(addr, 0, MEM_RELEASE): releases the whole allocation based at
\* addr, fails when addr is not the base of one
VirtualFree(ms, mm, b) ==
  IF \E m \in ms : m.base = b
    THEN LET m == CHOOSE x \in ms : x.base = b
         IN [maps |-> ms \ {m},
             mem |-> [p \in Pages |-> IF p \in Range(m.base, m.len) THEN 0 ELSE mm[p]],
             ok |-> TRUE]
    ELSE [maps |-> ms, mem |-> mm, ok |-> FALSE]

\* ::munmap as the build sees it
munmap(ms, mm, addr, length) ==
  IF backend = "Windows"
    THEN LET r == VirtualFree(ms, mm, addr)
         IN [maps |-> r.maps, mem |-> r.mem, rc |-> IF r.ok THEN 0 ELSE -1]
    ELSE PosixMunmap(ms, mm, addr, length)

\* a release call as the history records it: exact when it hits one existing
\* mapping of exactly that base and length
UnmapCall(ms, b, n, rc) ==
  [base |-> b, len |-> n, rc |-> rc,
   exact |-> \E m \in ms : m.base = b /\ m.len = n]

\* madvise takes one advice value per call, not a mask of them
AdviceName(advice) ==
  CASE advice = MADV_RANDOM -> "RANDOM"
    [] advice = MADV_DONTNEED -> "DONTNEED"
    [] advice = MADV_DONTFORK -> "DONTFORK"
    [] advice = MADV_NOHUGEPAGE -> "NOHUGEPAGE"
    [] OTHER -> "EINVAL"

\* the hint h put on every mapping inside [b, b+n)
WithHint(ms, b, n, h) ==
  {IF Range(m.base, m.len) \subseteq Range(b, n)
     THEN [m EXCEPT !.hints = @ \cup {h}] ELSE m : m \in ms}

\* Linux madvise(b, n, advice): EINVAL for an unaligned address or an unknown
\* advice, ENOMEM when a page of the range is not mapped; osRc is the kernel's
\* answer otherwise (an advice the running kernel does not support fails).
\* MADV_DONTNEED drops the pages: they read as zero afterwards.
madvise(ms, mm, b, n, advice, osRc) ==
  IF \/ AdviceName(advice) = "EINVAL"
     \/ b \notin Pages
     \/ ~(Range(b, n) \subseteq Occupied(ms))
     \/ osRc # 0
    THEN [maps |-> ms, mem |-> mm, rc |-> -1]
  ELSE IF AdviceName(advice) = "DONTNEED"
    THEN [maps |-> ms,
          mem |-> [p \in Pages |-> IF p \in Range(b, n) THEN 0 ELSE mm[p]],
          rc |-> 0]
  ELSE [maps |-> WithHint(ms, b, n, AdviceName(advice)), mem |-> mm, rc |-> 0]

\* minherit(b, n, INHERIT_NONE / VM_INHERIT_NONE)
minherit(ms, b, n, osRc) ==
  IF b \notin Pages \/ ~(Range(b, n) \subseteq Occupied(ms)) \/ osRc # 0
    THEN [maps |-> ms, rc |-> -1]
    ELSE [maps |-> WithHint(ms, b, n, "INHERIT_NONE"), rc |-> 0]

\* ---- Mapping ------------------------------------------------------------
Valid(h) == baseAddress[h] # MAP_FAILED

\* faulty variant: the fixed address is asked for with MAP_FIXED alone
TryMapFlags_PlainFixed(addr) ==
  {"MAP_ANON", "MAP_PRIVATE"}
    \cup (IF backend \in {"LinuxNoReplace", "LinuxLegacy"} THEN {"MAP_NORESERVE"} ELSE {})
    \cup (IF backend \in {"LinuxNoReplace", "FreeBSD"} /\ addr # 0 THEN {"MAP_FIXED"} ELSE {})

\* flags try_map passes to mmap
TryMapFlags(addr) ==
  {"MAP_ANON", "MAP_PRIVATE"}
    \cup (IF backend \in {"LinuxNoReplace", "LinuxLegacy"} THEN {"MAP_NORESERVE"} ELSE {})
    \cup (IF backend = "LinuxNoReplace" /\ addr # 0 THEN {"MAP_FIXED_NOREPLACE"} ELSE {})
    \cup (IF backend = "FreeBSD" /\ addr # 0 THEN {"MAP_FIXED", "MAP_EXCL"} ELSE {})

\* the hint calls of try_map after a successful mmap; osRc is the OS's answer
ApplyHints(ms, mm, b, n, osRc) ==
  IF backend \in {"LinuxNoReplace", "LinuxLegacy"}
    THEN LET r == madvise(ms, mm, b, n,
                          BitOr(BitOr(MADV_NOHUGEPAGE, MADV_DONTFORK), MADV_RANDOM),
                          osRc)
         IN [maps |-> r.maps, rc |-> r.rc]
  ELSE IF backend \in {"FreeBSD", "Apple"}
    THEN minherit(ms, b, n, osRc)
  ELSE [maps |-> ms, rc |-> 0]

\* faulty variant: the returned address is never compared with the requested one
Misplaced_Never(addr, mappedAddress) == FALSE

\* the test of try_map on the address mmap returned
Misplaced(addr, mappedAddress) == addr # 0 /\ addr # mappedAddress

\* faulty variant: the misplaced mapping is left mapped
UnmapMisplaced_Skip(ms, mm, mappedAddress, thisSize) ==
  [maps |-> ms, mem |-> mm, rc |-> 0]

\* try_map unmapping a mapping the OS put at another address than asked
UnmapMisplaced(ms, mm, mappedAddress, thisSize) ==
  munmap(ms, mm, mappedAddress, thisSize)

\* Mapping::try_map on an object whose fields are (thisBase, thisSize).
\* Result: the object's baseAddress, the OS state, the value returned, the
\* release calls made, the baseAddress the object had when try_map was
\* entered, and whether an assert killed the process.
\* (The one-element sets make each call's result be computed once.)
try_map(thisBase, thisSize, addr, ms, mm, place, osRc) ==
  IF thisBase # MAP_FAILED /\ ~ndebug
    THEN [baseAddress |-> thisBase, maps |-> ms, mem |-> mm, ret |-> FALSE,
          unmaps |-> <<>>, entries |-> <<thisBase>>, aborted |-> TRUE]
  ELSE
    LET mappedAddress == mmap(ms, addr, thisSize, BitOr(PROT_READ, PROT_WRITE),
                              TryMapFlags(addr), place)
    IN IF mappedAddress = MAP_FAILED
         THEN [baseAddress |-> MAP_FAILED, maps |-> ms, mem |-> mm, ret |-> FALSE,
               unmaps |-> <<>>, entries |-> <<thisBase>>, aborted |-> FALSE]
       ELSE IF Misplaced(addr, mappedAddress)
         THEN CHOOSE res \in
                {[baseAddress |-> IF u.rc # 0 /\ ~ndebug THEN thisBase ELSE MAP_FAILED,
                  maps |-> u.maps, mem |-> u.mem, ret |-> FALSE,
                  unmaps |-> <<UnmapCall(Mapped(ms, mappedAddress, thisSize),
                                         mappedAddress, thisSize, u.rc)>>,
                  entries |-> <<thisBase>>,
                  aborted |-> (u.rc # 0 /\ ~ndebug)] :
                 u \in {UnmapMisplaced(Mapped(ms, mappedAddress, thisSize), mm,
                                       mappedAddress, thisSize)}} : TRUE
       ELSE CHOOSE res \in
              {[baseAddress |-> mappedAddress, maps |-> hr.maps, mem |-> mm,
                ret |-> (hr.rc = 0 \/ ndebug), unmaps |-> <<>>,
                entries |-> <<thisBase>>,
                aborted |-> (hr.rc # 0 /\ ~ndebug)] :
               hr \in {ApplyHints(Mapped(ms, mappedAddress, thisSize), mm,
                                  mappedAddress, thisSize, osRc)}} : TRUE

\* ---- history ------------------------------------------------------------
Snapshot ==
  [alive |-> alive, baseAddress |-> baseAddress, size |-> size,
   maps |-> maps, mem |-> mem, freed |-> freed]

NoSnapshot ==
  [alive |-> [h \in Handles |-> FALSE],
   baseAddress |-> [h \in Handles |-> MAP_FAILED],
   size |-> [h \in Handles |-> 0],
   maps |-> {}, mem |-> [p \in Pages |-> 0], freed |-> <<>>]

Op(name, h, other, addr, sz, ret, returned, unmaps, entries) ==
  [op |-> name, h |-> h, other |-> other, addr |-> addr, sz |-> sz, ret |-> ret,
   returned |-> returned, unmaps |-> unmaps, entries |-> entries, pre |-> Snapshot]

\* ---- threads ------------------------------------------------------------
\* the result of an operation as its caller sees it: whether the object is a
\* valid reservation, where (0 when the caller asked for no address), and
\* whether the process died in it
Outcome(base, addr, dead) ==
  [valid |-> base # MAP_FAILED,
   base |-> IF base # MAP_FAILED /\ addr = 0 THEN 0 ELSE base,
   aborted |-> dead]

\* a thread that runs no operation and has run none
IdleThread ==
  [pc |-> "idle",          \* idle, or the call the thread makes next
   op |-> "none",          \* the operation running, or the last one run
   addr |-> 0,             \* the address try_map was called with
   sz |-> 0,               \* the size of the object at the call
   mapped |-> 0,           \* try_map's local mappedAddress
   base0 |-> MAP_FAILED,   \* the object's baseAddress when the operation began
   free0 |-> FALSE,        \* a create: the requested range was free then
   range |-> {},           \* the pages the operation names
   clash |-> {},           \* the threads whose pages met this operation's
   alone |-> {},           \* the outcomes the operation has when run alone
   out |-> <<>>]           \* <<outcome>> once the operation has ended

\* ---- operations ---------------------------------------------------------
Init ==
  /\ backend \in Backends
  /\ ndebug \in BOOLEAN
  /\ alive = [h \in Handles |-> FALSE]
  /\ baseAddress = [h \in Handles |-> MAP_FAILED]
  /\ size = [h \in Handles |-> 0]
  /\ maps = {}
  /\ mem = [p \in Pages |-> 0]
  /\ aborted = FALSE
  /\ freed = <<>>
  /\ last = [op |-> "init", h |-> 0, other |-> 0, addr |-> 0, sz |-> 0, ret |-> 0,
             returned |-> TRUE, unmaps |-> <<>>, entries |-> <<>>,
             pre |-> NoSnapshot]
  /\ thread = [t \in Threads |-> IdleThread]

\* Mapping() = default
MappingDefault(h) ==
  /\ ~aborted
  /\ ~alive[h]
  /\ alive' = [alive EXCEPT ![h] = TRUE]
  /\ baseAddress' = [baseAddress EXCEPT ![h] = MAP_FAILED]
  /\ size' = [size EXCEPT ![h] = 0]
  /\ last' = Op("default", h, 0, 0, 0, 0, TRUE, <<>>, <<>>)
  /\ UNCHANGED <<backend, ndebug, maps, mem, aborted, freed, thread>>

\* Mapping(std::uintptr_t baseAddress, std::size_t size)
MappingAt(h, addr, sz) ==
  /\ ~aborted
  /\ ~alive[h]
  /\ \E place \in KernelChoices(maps, sz), osRc \in {0, -1} :
       \E r \in {try_map(MAP_FAILED, sz, addr, maps, mem, place, osRc)} :
          /\ alive' = [alive EXCEPT ![h] = TRUE]
          /\ size' = [size EXCEPT ![h] = sz]
          /\ baseAddress' = [baseAddress EXCEPT ![h] = r.baseAddress]
          /\ maps' = r.maps
          /\ mem' = r.mem
          /\ aborted' = r.aborted
          /\ last' = Op("create", h, 0, addr, sz, r.ret, ~r.aborted, r.unmaps, r.entries)
  /\ freed' = <<>>
  /\ UNCHANGED <<backend, ndebug, thread>>

\* explicit Mapping(std::size_t size) : Mapping(0, size)
MappingSize(h, sz) == MappingAt(h, 0, sz)

\* faulty variant: the move constructor copies the fields and leaves other as it was
MoveFields_NoReset(h, other) ==
  [baseAddress |-> [baseAddress EXCEPT ![h] = baseAddress[other]],
   size |-> [size EXCEPT ![h] = size[other]]]

\* the two objects' fields after Mapping(Mapping &&other) built h from other
MoveFields(h, other) ==
  [baseAddress |-> [baseAddress EXCEPT ![h] = baseAddress[other],
                                       ![other] = MAP_FAILED],
   size |-> [size EXCEPT ![h] = size[other], ![other] = 0]]

\* Mapping(Mapping &&other)
MappingMove(h, other) ==
  /\ ~aborted
  /\ ~alive[h]
  /\ alive[other]
  /\ h # other
  /\ alive' = [alive EXCEPT ![h] = TRUE]
  /\ baseAddress' = MoveFields(h, other).baseAddress
  /\ size' = MoveFields(h, other).size
  /\ last' = Op("moveconstruct", h, other, 0, 0, 0, TRUE, <<>>, <<>>)
  /\ UNCHANGED <<backend, ndebug, maps, mem, aborted, freed, thread>>

\* faulty variant: move assignment overwrites the destination and resets other
AssignFields_Overwrite(h, other) ==
  IF other # h
    THEN [baseAddress |-> [baseAddress EXCEPT ![h] = baseAddress[other],
                                              ![other] = MAP_FAILED],
          size |-> [size EXCEPT ![h] = size[other], ![other] = 0]]
    ELSE [baseAddress |-> baseAddress, size |-> size]

\* faulty variant: move assignment copies other's fields and leaves other alone
AssignFields_Copy(h, other) ==
  IF other # h
    THEN [baseAddress |-> [baseAddress EXCEPT ![h] = baseAddress[other]],
          size |-> [size EXCEPT ![h] = size[other]]]
    ELSE [baseAddress |-> baseAddress, size |-> size]

\* the two objects' fields after operator=(Mapping &&other)
AssignFields(h, other) ==
  IF other # h
    THEN [baseAddress |-> [baseAddress EXCEPT ![h] = baseAddress[other],
                                              ![other] = baseAddress[h]],
          size |-> [size EXCEPT ![h] = size[other], ![other] = size[h]]]
    ELSE [baseAddress |-> baseAddress, size |-> size]

\* Mapping &operator=(Mapping &&other)
MoveAssign(h, other) ==
  /\ ~aborted
  /\ alive[h]
  /\ alive[other]
  /\ baseAddress' = AssignFields(h, other).baseAddress
  /\ size' = AssignFields(h, other).size
  /\ last' = Op("moveassign", h, other, 0, 0, 0, TRUE, <<>>, <<>>)
  /\ UNCHANGED <<backend, ndebug, alive, maps, mem, aborted, freed, thread>>

\* void *getBaseAddress() const: the assert, then the field
GetBaseAddress(h) ==
  /\ ~aborted
  /\ alive[h]
  /\ IF ~Valid(h) /\ ~ndebug
       THEN /\ aborted' = TRUE
            /\ last' = Op("getBaseAddress", h, 0, 0, 0, 0, FALSE, <<>>, <<>>)
       ELSE /\ aborted' = FALSE
            /\ last' = Op("getBaseAddress", h, 0, 0, 0, baseAddress[h], TRUE, <<>>, <<>>)
  /\ UNCHANGED <<backend, ndebug, alive, baseAddress, size, maps, mem, freed, thread>>

\* std::size_t getSize() const
GetSize(h) ==
  /\ ~aborted
  /\ alive[h]
  /\ last' = Op("getSize", h, 0, 0, 0, size[h], TRUE, <<>>, <<>>)
  /\ UNCHANGED <<backend, ndebug, alive, baseAddress, size, maps, mem, aborted, freed, thread>>

\* faulty variant: clear() passes an advice that keeps the pages
ClearDiscard_WrongAdvice(thisBase, thisSize, ms, mm) ==
  LET r == madvise(ms, mm, thisBase, thisSize, MADV_RANDOM, 0)
  IN [baseAddress |-> thisBase, maps |-> r.maps, mem |-> r.mem, unmaps |-> <<>>,
      entries |-> <<>>, aborted |-> (r.rc # 0 /\ ~ndebug)]

\* the body of clear() on Linux: drop the pages, keep the mapping
ClearDiscard(thisBase, thisSize, ms, mm) ==
  LET r == madvise(ms, mm, thisBase, thisSize, MADV_DONTNEED, 0)
  IN [baseAddress |-> thisBase, maps |-> r.maps, mem |-> r.mem, unmaps |-> <<>>,
      entries |-> <<>>, aborted |-> (r.rc # 0 /\ ~ndebug)]

\* faulty variant: clear() keeps the address in the object while it maps again
ClearStored_Keeps(thisBase) == thisBase

\* what clear() stores in baseAddress between its munmap and its try_map call
ClearStored(thisBase) == MAP_FAILED

\* the rest of the remap path once munmap has answered u
ClearRemapAfter(thisBase, thisSize, ms, u, place, osRc) ==
  IF u.rc # 0 /\ ~ndebug
    THEN [baseAddress |-> thisBase, maps |-> u.maps, mem |-> u.mem,
          unmaps |-> <<UnmapCall(ms, thisBase, thisSize, u.rc)>>,
          entries |-> <<>>, aborted |-> TRUE]
    ELSE CHOOSE res \in
           {[baseAddress |-> t.baseAddress, maps |-> t.maps, mem |-> t.mem,
             unmaps |-> <<UnmapCall(ms, thisBase, thisSize, u.rc)>> \o t.unmaps,
             entries |-> t.entries,
             aborted |-> (t.aborted \/ (~t.ret /\ ~ndebug))] :
            t \in {try_map(ClearStored(thisBase), thisSize, thisBase, u.maps, u.mem,
                            place, osRc)}} :
           TRUE

\* the body of clear() elsewhere: unmap, store the sentinel, map again at the
\* address the object had
ClearRemap(thisBase, thisSize, ms, mm, place, osRc) ==
  CHOOSE res \in
    {ClearRemapAfter(thisBase, thisSize, ms, u, place, osRc) :
     u \in {munmap(ms, mm, thisBase, thisSize)}} : TRUE

\* void clear()
Clear(h) ==
  /\ ~aborted
  /\ alive[h]
  /\ IF ~Valid(h) /\ ~ndebug
       THEN /\ aborted' = TRUE
            /\ last' = Op("clear", h, 0, 0, 0, 0, FALSE, <<>>, <<>>)
            /\ UNCHANGED <<baseAddress, maps, mem>>
       ELSE \E place \in KernelChoices(maps, size[h]), osRc \in {0, -1} :
              \E r \in {IF backend \in {"LinuxNoReplace", "LinuxLegacy"}
                         THEN ClearDiscard(baseAddress[h], size[h], maps, mem)
                         ELSE ClearRemap(baseAddress[h], size[h], maps, mem, place, osRc)} :
                 /\ baseAddress' = [baseAddress EXCEPT ![h] = r.baseAddress]
                 /\ maps' = r.maps
                 /\ mem' = r.mem
                 /\ aborted' = r.aborted
                 /\ last' = Op("clear", h, 0, 0, 0, 0, ~r.aborted, r.unmaps, r.entries)
  /\ freed' = IF backend \in {"LinuxNoReplace", "LinuxLegacy"} THEN freed ELSE <<>>
  /\ UNCHANGED <<backend, ndebug, alive, size, thread>>

\* faulty variant: the destructor forgets the munmap
Release_Nothing(thisBase, thisSize, ms, mm) ==
  [maps |-> ms, mem |-> mm, unmaps |-> <<>>, aborted |-> FALSE]

\* faulty variant: the destructor calls munmap without testing the object
Release_Unconditional(thisBase, thisSize, ms, mm) ==
  CHOOSE res \in
    {[maps |-> u.maps, mem |-> u.mem,
      unmaps |-> <<UnmapCall(ms, thisBase, thisSize, u.rc)>>,
      aborted |-> (u.rc # 0 /\ ~ndebug)] :
     u \in {munmap(ms, mm, thisBase, thisSize)}} : TRUE

\* faulty variant: the destructor releases one page less than the object has
Release_Short(thisBase, thisSize, ms, mm) ==
  IF thisBase # MAP_FAILED
    THEN CHOOSE res \in
           {[maps |-> u.maps, mem |-> u.mem,
             unmaps |-> <<UnmapCall(ms, thisBase, thisSize - 1, u.rc)>>,
             aborted |-> (u.rc # 0 /\ ~ndebug)] :
            u \in {munmap(ms, mm, thisBase, thisSize - 1)}} : TRUE
    ELSE [maps |-> ms, mem |-> mm, unmaps |-> <<>>, aborted |-> FALSE]

\* the release the destructor makes for an object with these fields
Release(thisBase, thisSize, ms, mm) ==
  IF thisBase # MAP_FAILED
    THEN CHOOSE res \in
           {[maps |-> u.maps, mem |-> u.mem,
             unmaps |-> <<UnmapCall(ms, thisBase, thisSize, u.rc)>>,
             aborted |-> (u.rc # 0 /\ ~ndebug)] :
            u \in {munmap(ms, mm, thisBase, thisSize)}} : TRUE
    ELSE [maps |-> ms, mem |-> mm, unmaps |-> <<>>, aborted |-> FALSE]

\* ~Mapping(); the fields of an object that no longer exists mean nothing and
\* are kept at their default values
Destroy(h) ==
  /\ ~aborted
  /\ alive[h]
  /\ \E r \in {Release(baseAddress[h], size[h], maps, mem)} :
        /\ maps' = r.maps
        /\ mem' = r.mem
        /\ aborted' = r.aborted
        /\ last' = Op("destroy", h, 0, 0, 0, 0, ~r.aborted, r.unmaps, <<>>)
        /\ freed' = IF Valid(h) /\ ~r.aborted THEN <<baseAddress[h], size[h]>> ELSE freed
  /\ alive' = [alive EXCEPT ![h] = FALSE]
  /\ baseAddress' = [baseAddress EXCEPT ![h] = MAP_FAILED]
  /\ size' = [size EXCEPT ![h] = 0]
  /\ UNCHANGED <<backend, ndebug, thread>>

\* the consumer stores into page p of the range getBaseAddress()/getSize() of
\* a valid object give it
Write(h, p) ==
  /\ ~aborted
  /\ alive[h]
  /\ Valid(h)
  /\ p \in Range(baseAddress[h], size[h])
  /\ mem[p] = 0
  /\ mem' = [mem EXCEPT ![p] = 1]
  /\ last' = Op("write", h, 0, p, 0, 0, TRUE, <<>>, <<>>)
  /\ UNCHANGED <<backend, ndebug, alive, baseAddress, size, maps, aborted, freed, thread>>

Next ==
  \/ \E h \in Handles : MappingDefault(h)
  \/ \E h \in Handles, sz \in Sizes : MappingSize(h, sz)
  \/ \E h \in Handles, addr \in Pages, sz \in Sizes : MappingAt(h, addr, sz)
  \/ \E h \in Handles, other \in Handles : MappingMove(h, other)
  \/ \E h \in Handles, other \in Handles : MoveAssign(h, other)
  \/ \E h \in Handles : GetBaseAddress(h)
  \/ \E h \in Handles : GetSize(h)
  \/ \E h \in Handles : Clear(h)
  \/ \E h \in Handles : Destroy(h)
  \/ \E h \in Handles, p \in Pages : Write(h, p)

Spec == Init /\ [][Next]_vars

\* ---- properties -------------------------------------------------------
\* the object h was a valid reservation before the last operation
PreValid(h) == last.pre.alive[h] /\ last.pre.baseAddress[h] # MAP_FAILED

\* the pages h designated before the last operation
PreRange(h) == Range(last.pre.baseAddress[h], last.pre.size[h])

\* the OS mappings that cover page p
MappingsAt(ms, p) == {m \in ms : p \in Range(m.base, m.len)}

\* the last operation left object r and the content of its pages alone
Untouched(r) ==
  /\ alive[r]
  /\ baseAddress[r] = last.pre.baseAddress[r]
  /\ size[r] = last.pre.size[r]
  /\ \A p \in PreRange(r) : mem[p] = last.pre.mem[p]

\* C1: create(size, A) while a live valid reservation R covers A returns (no
\* abort) an invalid reservation on every backend; R keeps its base address,
\* size and contents, and the one OS mapping covering A is R's, as before.
C1_OccupiedCreateFails ==
  (last.op = "create" /\ last.addr # 0) =>
    \A r \in Handles :
      (PreValid(r) /\ last.addr \in PreRange(r)) =>
        /\ last.returned
        /\ ~Valid(last.h)
        /\ Untouched(r)
        /\ Valid(r)
        /\ MappingsAt(maps, last.addr) = MappingsAt(last.pre.maps, last.addr)
        /\ MappingsAt(maps, last.addr) =
             {m \in maps : m.base = baseAddress[r] /\ m.len = size[r]}
        /\ Cardinality(MappingsAt(maps, last.addr)) = 1

\* C1 witness: a create at an address inside a live reservation with written
\* content, on a hint-only backend where the OS placed the mapping elsewhere
C1_Witness ==
  /\ last.op = "create"
  /\ last.addr # 0
  /\ \E r \in Handles :
       PreValid(r) /\ last.addr \in PreRange(r) /\ last.pre.mem[last.addr] = 1
  /\ last.unmaps # <<>>

\* C2: create(size, A) with A # 0 and [A, A+size) free returns a valid
\* reservation based at A (stated for every build target).
C2_FreeAddressHonoured ==
  (/\ last.op = "create"
   /\ last.addr # 0
   /\ RangeFree(last.pre.maps, last.addr, last.sz)
   /\ last.returned)
    => (Valid(last.h) /\ baseAddress[last.h] = last.addr)

ReleaseOf(h) == Release(baseAddress[h], size[h], maps, mem)

\* C4 as stated: after any move of a valid reservation (construction, or
\* assignment into any destination, here another object than the source) the
\* destination holds the source's former base address and size, the source is
\* invalid, and destroying the source releases nothing.
C4_MoveInvalidatesSource ==
  (/\ last.op \in {"moveconstruct", "moveassign"}
   /\ last.h # last.other
   /\ PreValid(last.other)) =>
    /\ baseAddress[last.h] = last.pre.baseAddress[last.other]
    /\ size[last.h] = last.pre.size[last.other]
    /\ ~Valid(last.other)
    /\ ReleaseOf(last.other).unmaps = <<>>
    /\ ReleaseOf(last.other).maps = maps

\* C4 amended: move construction, and move assignment into an invalid
\* destination other than the source, give the destination the source's
\* former base address and size and leave the source invalid, so that
\* destroying it releases nothing.  Move assignment into a valid destination
\* other than the source exchanges the fields: the destination holds the
\* source's former pair, the source stays valid with the destination's former
\* pair, and destroying the source releases exactly that former mapping and
\* leaves the destination's range mapped.  Self-assignment changes nothing.
C4_MoveTransfersOrSwaps ==
  (last.op \in {"moveconstruct", "moveassign"} /\ PreValid(last.other)) =>
    IF last.h = last.other
      THEN /\ baseAddress = last.pre.baseAddress
           /\ size = last.pre.size
           /\ maps = last.pre.maps
      ELSE /\ baseAddress[last.h] = last.pre.baseAddress[last.other]
           /\ size[last.h] = last.pre.size[last.other]
           /\ maps = last.pre.maps
           /\ IF last.op = "moveconstruct" \/ ~PreValid(last.h)
                THEN /\ ~Valid(last.other)
                     /\ ReleaseOf(last.other).unmaps = <<>>
                     /\ ReleaseOf(last.other).maps = maps
                ELSE /\ baseAddress[last.other] = last.pre.baseAddress[last.h]
                     /\ size[last.other] = last.pre.size[last.h]
                     /\ Valid(last.other)
                     /\ Len(ReleaseOf(last.other).unmaps) = 1
                     /\ ReleaseOf(last.other).unmaps[1].exact
                     /\ ReleaseOf(last.other).unmaps[1].base = last.pre.baseAddress[last.h]
                     /\ PreRange(last.h) \cap Occupied(ReleaseOf(last.other).maps) = {}
                     /\ Range(baseAddress[last.h], size[last.h])
                          \subseteq Occupied(ReleaseOf(last.other).maps)

\* C4 witness: a valid reservation was move-assigned into another valid one
C4_Witness ==
  /\ last.op = "moveassign"
  /\ last.h # last.other
  /\ PreValid(last.other)
  /\ PreValid(last.h)

\* C5: a create(size, X) that follows the destruction of a valid reservation
\* of that size at X, with no mapping request in between, returns a valid
\* reservation based at X; after the destruction no page of the range is
\* mapped.
C5_RecreateAfterDestroy ==
  /\ (freed # <<>>) => RangeFree(maps, freed[1], freed[2])
  /\ (/\ last.op = "create"
      /\ last.pre.freed # <<>>
      /\ last.pre.freed = <<last.addr, last.sz>>
      /\ last.returned)
       => (/\ Valid(last.h)
           /\ baseAddress[last.h] = last.addr
           /\ size[last.h] = last.sz)

\* C5 witness: such a create, made after a destruction, has succeeded
C5_Witness ==
  /\ last.op = "create"
  /\ last.pre.freed # <<>>
  /\ last.pre.freed = <<last.addr, last.sz>>
  /\ last.returned
  /\ Valid(last.h)

\* C6: create(size, 0) with size > 0, when the address space has room for
\* size pages, returns a valid reservation of that size (stated for every
\* build target).
C6_AnyAddressCreate ==
  (/\ last.op = "create"
   /\ last.addr = 0
   /\ last.sz > 0
   /\ FreeBases(last.pre.maps, last.sz) # {}
   /\ last.returned)
    => (Valid(last.h) /\ size[last.h] = last.sz)

\* C7: a create that fails (try_map returned false, or the object is invalid)
\* returns an invalid reservation and leaves the OS mappings and the memory
\* as they were; a mapping the OS placed elsewhere than asked was unmapped by
\* a release call that hit exactly that mapping.
C7_FailedCreateLeavesNothing ==
  (last.op = "create" /\ last.returned /\ (~last.ret \/ ~Valid(last.h))) =>
    /\ ~last.ret
    /\ ~Valid(last.h)
    /\ maps = last.pre.maps
    /\ mem = last.pre.mem
    /\ \A i \in DOMAIN last.unmaps :
         /\ last.unmaps[i].exact
         /\ last.unmaps[i].rc = 0
         /\ last.unmaps[i].base # last.addr
         /\ RangeFree(last.pre.maps, last.unmaps[i].base, last.unmaps[i].len)

\* C7 witness: a create at a fixed address failed after the OS had placed the
\* mapping at another address
C7_Witness ==
  /\ last.op = "create"
  /\ last.returned
  /\ ~Valid(last.h)
  /\ last.addr # 0
  /\ last.unmaps # <<>>

\* C8: every release call hits exactly one existing mapping (or is the
\* rejected call on the sentinel clear() makes for an invalid object when
\* asserts are compiled out); destroying a valid object makes one release
\* call, for its own mapping, which is gone afterwards; destroying an invalid
\* object makes no release call and changes no mapping; and no mapping is
\* left for a second release: every valid object designates an existing
\* mapping that no other valid object designates.
C8_ReleaseAtMostOnce ==
  /\ \A i \in DOMAIN last.unmaps :
       last.unmaps[i].exact \/ last.unmaps[i].base = MAP_FAILED
  /\ (last.op = "destroy" /\ PreValid(last.h)) =>
       /\ Len(last.unmaps) = 1
       /\ last.unmaps[1].exact
       /\ last.unmaps[1].rc = 0
       /\ last.unmaps[1].base = last.pre.baseAddress[last.h]
       /\ last.unmaps[1].len = last.pre.size[last.h]
       /\ maps = {m \in last.pre.maps : m.base # last.pre.baseAddress[last.h]}
  /\ (last.op = "destroy" /\ ~PreValid(last.h)) =>
       (last.unmaps = <<>> /\ maps = last.pre.maps)
  /\ \A h \in Handles :
       (alive[h] /\ Valid(h)) =>
         /\ \E m \in maps : m.base = baseAddress[h] /\ m.len = size[h]
         /\ \A g \in Handles \ {h} :
              (alive[g] /\ Valid(g)) => baseAddress[g] # baseAddress[h]

\* C8 witness: an invalid object was destroyed while another object held a
\* mapping
C8_Witness ==
  /\ last.op = "destroy"
  /\ ~PreValid(last.h)
  /\ last.pre.alive[last.h]
  /\ \E g \in Handles : alive[g] /\ Valid(g)

\* C9: getBaseAddress() and getSize() on an invalid reservation do not return.
C9_AccessorsFatalOnInvalid ==
  (last.op \in {"getBaseAddress", "getSize"} /\ ~PreValid(last.h)) => ~last.returned

\* the state part of C10
C10_State ==
  /\ \A h \in Handles :
       (alive[h] /\ Valid(h)) =>
         /\ Cardinality({m \in maps : m.base = baseAddress[h] /\ m.len = size[h]}) = 1
         /\ {m \in maps : Range(m.base, m.len) \cap Range(baseAddress[h], size[h]) # {}}
              = {m \in maps : m.base = baseAddress[h] /\ m.len = size[h]}
  /\ \A h \in Handles, g \in Handles :
       (h # g /\ alive[h] /\ Valid(h) /\ alive[g] /\ Valid(g)) =>
         Range(baseAddress[h], size[h]) \cap Range(baseAddress[g], size[g]) = {}

\* the step part of C10: a base address that is mapped before and after a
\* step is mapped with the same length
C10_Step ==
  \A m \in maps : \A n \in maps' : (m.base = n.base) => (m.len = n.len)

\* C10: between operations, each valid object's (baseAddress, size) is the
\* base and length of exactly one existing OS mapping and overlaps no other
\* mapping, no two valid objects designate overlapping ranges, and the length
\* of a mapping never changes while its base stays mapped.
C10_ExclusiveMapping == []C10_State /\ [][C10_Step]_vars

\* C10 witness: two valid objects exist after a move assignment exchanged
\* their mappings
C10_Witness ==
  /\ last.op = "moveassign"
  /\ \E h \in Handles, g \in Handles :
       /\ h # g
       /\ alive[h] /\ Valid(h) /\ alive[g] /\ Valid(g)
       /\ size[h] # size[g]

\* ---- error reporting ----------------------------------------------------
\* the value a create hands its caller: the constructed object, whose state is
\* its two fields (the constructor drops the bool try_map returns)
Returned(base, sz) == [baseAddress |-> base, size |-> sz]

\* the failure path a try_map call took, read from what it did: the OS
\* refused the mapping, or a mapping placed elsewhere was released again
ErrorKind(ret, unmaps) ==
  IF ret THEN "none"
  ELSE IF unmaps # <<>> THEN "AddressMismatch"
  ELSE "MappingFailed"

\* the states the OS address space can be in: disjoint mappings of 1..MaxSize
\* pages inside 1..NumPages
OsStates ==
  {ms \in SUBSET {[base |-> b, len |-> n, hints |-> {}] :
                    b \in Pages, n \in 1..MaxSize} :
     /\ \A m \in ms : m.base + m.len - 1 <= NumPages
     /\ \A m \in ms : \A k \in ms :
          m # k => Range(m.base, m.len) \cap Range(k.base, k.len) = {}}

\* C11: a failed create tells its caller which error occurred: the value it
\* returns differs from the value the same request returns when it fails with
\* the other error (in another state of the address space).
C11_FailureKindReported ==
  (last.op = "create" /\ last.returned /\ ~last.ret) =>
    \A ms \in OsStates : \A place \in KernelChoices(ms, last.sz) :
      \A r \in {try_map(MAP_FAILED, last.sz, last.addr, ms, mem, place, 0)} :
        (/\ ~r.ret
         /\ ~r.aborted
         /\ ErrorKind(r.ret, r.unmaps) # ErrorKind(last.ret, last.unmaps))
          => Returned(r.baseAddress, last.sz)
               # Returned(baseAddress[last.h], size[last.h])

\* ---- hints --------------------------------------------------------------
\* the hints in force on every page of [b, b+n): those of the mappings that
\* cover the range
HintsOn(ms, b, n) ==
  {x \in {"NOHUGEPAGE", "DONTFORK", "RANDOM", "INHERIT_NONE"} :
     \A p \in Range(b, n) : \E m \in MappingsAt(ms, p) : x \in m.hints}

\* C12: after a successful create on Linux whose madvise call returned 0 (the
\* assert on its result passed), the three hints NOHUGEPAGE, DONTFORK and
\* RANDOM are in force on the mapped range.
C12_ThreeHintsInForce ==
  (/\ last.op = "create"
   /\ backend \in {"LinuxNoReplace", "LinuxLegacy"}
   /\ ~ndebug
   /\ last.returned
   /\ Valid(last.h))
    => {"NOHUGEPAGE", "DONTFORK", "RANDOM"}
         \subseteq HintsOn(maps, baseAddress[last.h], size[last.h])

\* the build targets whose try_map makes a hint call
HintBackends == {"LinuxNoReplace", "LinuxLegacy", "FreeBSD", "Apple"}

\* C13: a create whose hint call (madvise, minherit) failed does not return:
\* every create that returns a valid reservation has its hint applied on the
\* mapped range, and a create that returns an invalid one has left no mapping
\* (the hint failure is not turned into a failed create).
C13_HintFailureFatal ==
  (last.op = "create" /\ backend \in HintBackends /\ last.returned) =>
    /\ Valid(last.h) => HintsOn(maps, baseAddress[last.h], size[last.h]) # {}
    /\ ~Valid(last.h) => maps = last.pre.maps

\* ---- concurrent specification -------------------------------------------
\* Thread t runs the operations of object t.  Every call into the OS is one
\* step; what a thread does to its own object between two calls belongs to
\* the step of the call before it.
Running(u) == thread[u].pc # "idle"

\* the pages [b, b+n) an operation names, inside the address space or not
NamedRange(b, n) == IF b >= 1 /\ n >= 1 THEN b .. (b + n - 1) ELSE {}

\* the reservation object u stands for while its thread is between two calls
ReservationOf(u) ==
  IF ~alive[u] THEN {}
  ELSE IF thread[u].pc \in {"idle", "hint"}
    THEN (IF Valid(u)
            THEN {[base |-> baseAddress[u], len |-> size[u], hints |-> {}]} ELSE {})
  ELSE IF thread[u].op = "clear" /\ thread[u].base0 # MAP_FAILED
    THEN {[base |-> thread[u].base0, len |-> size[u], hints |-> {}]}
  ELSE {}

\* the address space as it is when no operation is under way: the
\* reservations, without the mappings and holes of running operations
Settled == UNION {ReservationOf(u) : u \in Threads}

\* the outcomes of Mapping(addr, sz) run alone
AloneCreate(addr, sz) ==
  {Outcome(r.baseAddress, addr, r.aborted) :
     r \in {try_map(MAP_FAILED, sz, addr, Settled, mem, place, osRc) :
              place \in KernelChoices(Settled, sz), osRc \in {0, -1}}}

\* the outcomes of clear() on object t run alone
AloneClear(t) ==
  IF ~Valid(t) /\ ~ndebug
    THEN {Outcome(baseAddress[t], baseAddress[t], TRUE)}
  ELSE IF backend \in {"LinuxNoReplace", "LinuxLegacy"}
    THEN {Outcome(r.baseAddress, baseAddress[t], r.aborted) :
            r \in {ClearDiscard(baseAddress[t], size[t], Settled, mem)}}
  ELSE {Outcome(r.baseAddress, baseAddress[t], r.aborted) :
          r \in {ClearRemap(baseAddress[t], size[t], Settled, mem, place, osRc) :
                   place \in KernelChoices(Settled, size[t]), osRc \in {0, -1}}}

\* the outcomes of ~Mapping() on object t run alone
AloneDestroy(t) ==
  {Outcome(MAP_FAILED, baseAddress[t],
           Release(baseAddress[t], size[t], Settled, mem).aborted)}

\* the thread records when thread t begins an operation that names the pages
\* rng: a running operation of another thread that names one of them is noted
\* in both records
Begin(t, name, addr, sz, rng, alone) ==
  [u \in Threads |->
     IF u = t
       THEN [pc |-> "idle", op |-> name, addr |-> addr, sz |-> sz, mapped |-> 0,
             base0 |-> IF name = "create" THEN MAP_FAILED ELSE baseAddress[t],
             free0 |-> name = "create" /\ RangeFree(maps, addr, sz),
             range |-> rng,
             clash |-> {v \in Threads \ {t} :
                          Running(v) /\ thread[v].range \cap rng # {}},
             alone |-> alone, out |-> <<>>]
     ELSE IF Running(u) /\ thread[u].range \cap rng # {}
       THEN [thread[u] EXCEPT !.clash = @ \cup {t}]
     ELSE thread[u]]

\* the thread records when thread t has got its mapping at [b, b+n): a running
\* operation of another thread that names one of these pages is noted
Placed(t, b, n) ==
  [u \in Threads |->
     IF u # t /\ Running(u) /\ thread[u].range \cap NamedRange(b, n) # {}
       THEN [thread[u] EXCEPT !.clash = @ \cup {t}]
     ELSE IF u = t
       THEN [thread[u] EXCEPT !.clash =
               @ \cup {v \in Threads \ {t} :
                         Running(v) /\ thread[v].range \cap NamedRange(b, n) # {}}]
     ELSE thread[u]]

\* the thread records when the operation of thread t has ended with the
\* object's baseAddress at base, or has killed the process
End(thr, t, base, dead) ==
  [thr EXCEPT ![t].pc = "idle", ![t].out = <<Outcome(base, thr[t].addr, dead)>>]

\* try_map returns success to its caller: the constructor drops the value,
\* clear() asserts it
Return(thr, t, base, success) ==
  /\ aborted' = (thr[t].op = "clear" /\ ~success /\ ~ndebug)
  /\ thread' = End(thr, t, base, thr[t].op = "clear" /\ ~success /\ ~ndebug)

\* Mapping(std::uintptr_t baseAddress, std::size_t size): the object exists
\* with its size stored, try_map is entered
CreateCall(t, addr, sz) ==
  /\ ~aborted
  /\ ~Running(t)
  /\ ~alive[t]
  /\ alive' = [alive EXCEPT ![t] = TRUE]
  /\ size' = [size EXCEPT ![t] = sz]
  /\ baseAddress' = [baseAddress EXCEPT ![t] = MAP_FAILED]
  /\ thread' = [Begin(t, "create", addr, sz, NamedRange(addr, sz),
                      AloneCreate(addr, sz)) EXCEPT ![t].pc = "mmap"]
  /\ UNCHANGED <<backend, ndebug, maps, mem, aborted, freed, last>>

\* try_map: the entry assert, the ::mmap call and the tests on its result
TryMapMmap(t) ==
  /\ ~aborted
  /\ thread[t].pc = "mmap"
  /\ IF baseAddress[t] # MAP_FAILED /\ ~ndebug
       THEN /\ aborted' = TRUE
            /\ thread' = End(thread, t, baseAddress[t], TRUE)
            /\ UNCHANGED <<baseAddress, maps>>
       ELSE \E place \in KernelChoices(maps, size[t]) :
              \E mappedAddress \in
                   {mmap(maps, thread[t].addr, size[t], BitOr(PROT_READ, PROT_WRITE),
                         TryMapFlags(thread[t].addr), place)} :
                IF mappedAddress = MAP_FAILED
                  THEN /\ baseAddress' = [baseAddress EXCEPT ![t] = MAP_FAILED]
                       /\ Return(thread, t, MAP_FAILED, FALSE)
                       /\ UNCHANGED maps
                ELSE IF Misplaced(thread[t].addr, mappedAddress)
                  THEN /\ maps' = Mapped(maps, mappedAddress, size[t])
                       /\ thread' = [thread EXCEPT ![t].pc = "unmap",
                                                   ![t].mapped = mappedAddress]
                       /\ UNCHANGED <<baseAddress, aborted>>
                ELSE /\ maps' = Mapped(maps, mappedAddress, size[t])
                     /\ baseAddress' = [baseAddress EXCEPT ![t] = mappedAddress]
                     /\ IF backend \in HintBackends
                          THEN /\ thread' = [Placed(t, mappedAddress, size[t])
                                               EXCEPT ![t].pc = "hint",
                                                      ![t].mapped = mappedAddress]
                               /\ UNCHANGED aborted
                          ELSE Return(Placed(t, mappedAddress, size[t]), t,
                                      mappedAddress, TRUE)
  /\ UNCHANGED <<backend, ndebug, alive, size, mem, freed, last>>

\* try_map: the ::munmap of a mapping the OS put elsewhere than asked
TryMapUnmap(t) ==
  /\ ~aborted
  /\ thread[t].pc = "unmap"
  /\ \E u \in {UnmapMisplaced(maps, mem, thread[t].mapped, size[t])} :
       /\ maps' = u.maps
       /\ mem' = u.mem
       /\ IF u.rc # 0 /\ ~ndebug
            THEN /\ aborted' = TRUE
                 /\ thread' = End(thread, t, baseAddress[t], TRUE)
                 /\ UNCHANGED baseAddress
            ELSE /\ baseAddress' = [baseAddress EXCEPT ![t] = MAP_FAILED]
                 /\ Return(thread, t, MAP_FAILED, FALSE)
  /\ UNCHANGED <<backend, ndebug, alive, size, freed, last>>

\* try_map: the hint call on the new mapping and the assert on its result
TryMapHint(t) ==
  /\ ~aborted
  /\ thread[t].pc = "hint"
  /\ \E osRc \in {0, -1} :
       \E hr \in {ApplyHints(maps, mem, baseAddress[t], size[t], osRc)} :
         /\ maps' = hr.maps
         /\ IF hr.rc # 0 /\ ~ndebug
              THEN /\ aborted' = TRUE
                   /\ thread' = End(thread, t, baseAddress[t], TRUE)
              ELSE Return(thread, t, baseAddress[t], TRUE)
  /\ UNCHANGED <<backend, ndebug, alive, baseAddress, size, mem, freed, last>>

\* clear(): the assert and, on Linux, the madvise call, which ends it;
\* elsewhere the ::munmap call, after which the sentinel is stored and try_map
\* is entered with the address the object had
ClearCall(t) ==
  /\ ~aborted
  /\ ~Running(t)
  /\ alive[t]
  /\ \E b \in {Begin(t, "clear", baseAddress[t], size[t],
                     NamedRange(baseAddress[t], size[t]), AloneClear(t))} :
       IF ~Valid(t) /\ ~ndebug
         THEN /\ aborted' = TRUE
              /\ thread' = End(b, t, baseAddress[t], TRUE)
              /\ UNCHANGED <<baseAddress, maps, mem>>
       ELSE IF backend \in {"LinuxNoReplace", "LinuxLegacy"}
         THEN \E r \in {ClearDiscard(baseAddress[t], size[t], maps, mem)} :
                /\ maps' = r.maps
                /\ mem' = r.mem
                /\ aborted' = r.aborted
                /\ thread' = End(b, t, baseAddress[t], r.aborted)
                /\ UNCHANGED baseAddress
       ELSE \E u \in {munmap(maps, mem, baseAddress[t], size[t])} :
              /\ maps' = u.maps
              /\ mem' = u.mem
              /\ IF u.rc # 0 /\ ~ndebug
                   THEN /\ aborted' = TRUE
                        /\ thread' = End(b, t, baseAddress[t], TRUE)
                        /\ UNCHANGED baseAddress
                   ELSE /\ aborted' = FALSE
                        /\ baseAddress' =
                             [baseAddress EXCEPT ![t] = ClearStored(baseAddress[t])]
                        /\ thread' = [b EXCEPT ![t].pc = "mmap"]
  /\ UNCHANGED <<backend, ndebug, alive, size, freed, last>>

\* ~Mapping(): one ::munmap call when the object is valid
DestroyCall(t) ==
  /\ ~aborted
  /\ ~Running(t)
  /\ alive[t]
  /\ \E r \in {Release(baseAddress[t], size[t], maps, mem)} :
       /\ maps' = r.maps
       /\ mem' = r.mem
       /\ aborted' = r.aborted
       /\ thread' = End(Begin(t, "destroy", baseAddress[t], size[t],
                              NamedRange(baseAddress[t], size[t]), AloneDestroy(t)),
                        t, MAP_FAILED, r.aborted)
  /\ alive' = [alive EXCEPT ![t] = FALSE]
  /\ baseAddress' = [baseAddress EXCEPT ![t] = MAP_FAILED]
  /\ size' = [size EXCEPT ![t] = 0]
  /\ UNCHANGED <<backend, ndebug, freed, last>>

NextMT ==
  \/ \E t \in Threads, addr \in Pages \cup {0}, sz \in Sizes : CreateCall(t, addr, sz)
  \/ \E t \in Threads : TryMapMmap(t)
  \/ \E t \in Threads : TryMapUnmap(t)
  \/ \E t \in Threads : TryMapHint(t)
  \/ \E t \in Threads : ClearCall(t)
  \/ \E t \in Threads : DestroyCall(t)

SpecMT == Init /\ [][NextMT]_vars

\* C14: a clear() of a valid reservation that returns leaves the reservation
\* valid at the address it had: when the second mapping request of the
\* unmap-then-remap path fails or is placed elsewhere, clear() does not return.
C14_ClearRemapFatal ==
  \A t \in Threads :
    (/\ thread[t].op = "clear"
     /\ thread[t].out # <<>>
     /\ thread[t].base0 # MAP_FAILED
     /\ ~thread[t].out[1].aborted)
      => (/\ thread[t].out[1].valid
          /\ thread[t].out[1].base = thread[t].base0
          /\ baseAddress[t] = thread[t].base0)

\* the builds that ask for a fixed address with an atomic "fail if occupied" flag
AtomicBackends == {"LinuxNoReplace", "FreeBSD"}

\* threads t and u have each run, as their last operation, a create(sz, A) at
\* the same address A # 0 and of the same size, the two calls overlapped in
\* time, no third operation named a page of the range meanwhile, the range
\* was free when the first of them began, and both calls have returned
ConcurrentCreates(t, u) ==
  /\ t # u
  /\ ~aborted
  /\ thread[t].op = "create" /\ thread[u].op = "create"
  /\ thread[t].out # <<>> /\ thread[u].out # <<>>
  /\ thread[t].addr # 0
  /\ thread[t].addr = thread[u].addr
  /\ thread[t].sz = thread[u].sz
  /\ thread[t].clash = {u} /\ thread[u].clash = {t}
  /\ thread[t].free0 \/ thread[u].free0

\* C15: on a build with the atomic fixed-mapping flag, of two concurrent
\* create(size, A) calls for the same free address exactly one returns a
\* valid reservation, based at A, the other returns an invalid one, and
\* exactly one OS mapping covers A afterwards: [A, A+size).
C15_OneWinner ==
  \A t \in Threads, u \in Threads :
    (backend \in AtomicBackends /\ ConcurrentCreates(t, u)) =>
      /\ Valid(t) # Valid(u)
      /\ Valid(t) => (baseAddress[t] = thread[t].addr /\ size[t] = thread[t].sz)
      /\ Valid(u) => (baseAddress[u] = thread[u].addr /\ size[u] = thread[u].sz)
      /\ Cardinality(MappingsAt(maps, thread[t].addr)) = 1
      /\ \A m \in MappingsAt(maps, thread[t].addr) :
           m.base = thread[t].addr /\ m.len = thread[t].sz

\* C15 witness: two such calls, both begun while the range was still free,
\* have returned on an atomic-flag build
C15_Witness ==
  /\ backend \in AtomicBackends
  /\ \E t \in Threads, u \in Threads :
       /\ ConcurrentCreates(t, u)
       /\ thread[t].free0
       /\ thread[u].free0
       /\ Valid(u)

\* C16: an operation that names an address (a create at an address, a clear,
\* a destruction) and has ended, while no operation of another thread named a
\* page of its range and no other thread's reservation was placed on one, has
\* one of the outcomes it has when it runs alone; in particular another
\* thread has not made it fail or abort.
C16_DisjointIndependent ==
  \A t \in Threads :
    (/\ thread[t].out # <<>>
     /\ thread[t].addr # 0
     /\ thread[t].clash = {})
      => thread[t].out[1] \in thread[t].alone

\* ---- life cycle ---------------------------------------------------------
\* object h is a valid reservation now
NowValid(h) == alive[h] /\ Valid(h)

\* the last operation was a move assignment between h and another object g
AssignedWith(h, g) ==
  /\ last.op = "moveassign"
  /\ h # g
  /\ (last.h = h /\ last.other = g) \/ (last.h = g /\ last.other = h)

\* C17 as stated: an object becomes a valid reservation only when it is
\* constructed (by a create that succeeds, or from a valid object it is moved
\* from); a valid reservation that stays valid keeps its address and size;
\* it becomes invalid only by destruction or as the source of a move; a
\* failed create leaves the object invalid.  So an object that exists and is
\* invalid never becomes valid.
C17_StatedTransitionsOnly ==
  last.returned =>
    /\ \A h \in Handles :
         /\ (~PreValid(h) /\ NowValid(h)) =>
              /\ last.h = h
              /\ ~last.pre.alive[h]
              /\ \/ last.op = "create" /\ last.ret
                 \/ last.op = "moveconstruct" /\ PreValid(last.other)
         /\ (PreValid(h) /\ NowValid(h)) =>
              /\ baseAddress[h] = last.pre.baseAddress[h]
              /\ size[h] = last.pre.size[h]
         /\ (PreValid(h) /\ ~NowValid(h)) =>
              \/ last.op = "destroy" /\ last.h = h
              \/ last.op \in {"moveconstruct", "moveassign"} /\ last.other = h
    /\ (last.op = "create" /\ ~last.ret) => ~Valid(last.h)

\* C17 amended: the transitions of the code.  Invalid to valid: by a create
\* that succeeds, by move construction from a valid object, and by move
\* assignment with a valid object on the other side (as destination or as
\* source: the fields are exchanged), also for an object that was valid
\* earlier.  Valid to valid: with the same address and size (clear and every
\* other operation), except that a move assignment between two valid objects
\* gives each the other's address and size.  Valid to invalid: by
\* destruction, as the source of a move construction, and by move assignment
\* with an invalid object on the other side.  A failed create leaves the
\* object invalid.
C17_Transitions ==
  last.returned =>
    /\ \A h \in Handles :
         /\ (~PreValid(h) /\ NowValid(h)) =>
              \/ last.op = "create" /\ last.h = h /\ last.ret
              \/ last.op = "moveconstruct" /\ last.h = h /\ PreValid(last.other)
              \/ \E g \in Handles : AssignedWith(h, g) /\ PreValid(g) /\ ~NowValid(g)
         /\ (PreValid(h) /\ NowValid(h)) =>
              \/ /\ baseAddress[h] = last.pre.baseAddress[h]
                 /\ size[h] = last.pre.size[h]
                 /\ ~\E g \in Handles : AssignedWith(h, g)
              \/ \E g \in Handles :
                   /\ AssignedWith(h, g)
                   /\ PreValid(g)
                   /\ NowValid(g)
                   /\ baseAddress[h] = last.pre.baseAddress[g]
                   /\ size[h] = last.pre.size[g]
         /\ (PreValid(h) /\ ~NowValid(h)) =>
              \/ last.op = "destroy" /\ last.h = h
              \/ last.op = "moveconstruct" /\ last.other = h
              \/ \E g \in Handles : AssignedWith(h, g) /\ ~PreValid(g) /\ NowValid(g)
    /\ (last.op = "create" /\ ~last.ret) => ~Valid(last.h)
    /\ (last.op = "clear" /\ PreValid(last.h)) =>
         /\ NowValid(last.h)
         /\ baseAddress[last.h] = last.pre.baseAddress[last.h]
         /\ size[last.h] = last.pre.size[last.h]

\* C17 witness: an object that existed and was invalid has become valid by a
\* move assignment, which left its source invalid
C17_Witness ==
  /\ last.op = "moveassign"
  /\ last.h # last.other
  /\ last.pre.alive[last.h]
  /\ ~PreValid(last.h)
  /\ NowValid(last.h)
  /\ ~NowValid(last.other)

\* ---- leaks --------------------------------------------------------------
\* C18: while the process runs, every OS mapping is the mapping of a live
\* valid object (same base and length), so that once every object has been
\* destroyed no mapping is left, whatever creates, clears, move
\* constructions, move assignments and destructions came before.
C18_NoLeak ==
  ~aborted =>
    /\ \A m \in maps :
         \E h \in Handles :
           alive[h] /\ Valid(h) /\ baseAddress[h] = m.base /\ size[h] = m.len
    /\ (\A h \in Handles : ~alive[h]) => maps = {}

\* C18 witness: the last object has been destroyed, it was valid, and the
\* destruction before it had released another mapping
C18_Witness ==
  /\ last.op = "destroy"
  /\ PreValid(last.h)
  /\ last.pre.freed # <<>>
  /\ last.pre.maps # {}
  /\ \A h \in Handles : ~alive[h]
  /\ maps = {}

\* C19: when clear() returns on a valid reservation, the hints in force on
\* its range are those that were in force before the call.  (Hints change
\* only in create and clear, so by induction they are those in force right
\* after the create that made the mapping.)
C19_ClearKeepsHints ==
  (last.op = "clear" /\ PreValid(last.h) /\ last.returned) =>
    HintsOn(maps, baseAddress[last.h], size[last.h])
      = HintsOn(last.pre.maps, last.pre.baseAddress[last.h], last.pre.size[last.h])

\* ---- try_map's precondition ---------------------------------------------
\* C20: at every call of try_map the object's baseAddress is the sentinel:
\* the constructor calls it on a new object, clear() after it has released
\* the object's own mapping (one release call, on exactly that mapping) and
\* stored the sentinel.  So an operation never adds a mapping to one the
\* object still owns: clear() leaves no more mappings than there were, a
\* create at most one more.
C20_TryMapPrecondition ==
  /\ \A i \in DOMAIN last.entries : last.entries[i] = MAP_FAILED
  /\ (last.op \in {"default", "moveconstruct", "moveassign", "getBaseAddress",
                   "getSize", "destroy", "write"}) => last.entries = <<>>
  /\ (last.op = "create") => Len(last.entries) = 1
  /\ (last.op = "clear" /\ last.entries # <<>>) =>
       /\ Len(last.entries) = 1
       /\ Len(last.unmaps) >= 1
       /\ last.unmaps[1].base = last.pre.baseAddress[last.h]
       /\ PreValid(last.h) => (last.unmaps[1].exact /\ last.unmaps[1].rc = 0)
       /\ Cardinality(maps) <= Cardinality(last.pre.maps)
  /\ (last.op = "create") => Cardinality(maps) <= Cardinality(last.pre.maps) + 1

\* C20 witness: clear() has gone through try_map for a valid reservation and
\* returned
C20_Witness ==
  /\ last.op = "clear"
  /\ PreValid(last.h)
  /\ last.returned
  /\ last.entries = <<MAP_FAILED>>
  /\ Valid(last.h)

====
